---- MODULE Spec2Model ----
(***************************************************************************)
(* k-Anonymity notebook: isKAnonymized and generalize over small pandas    *)
(* dataframes.  A dataframe is a record [columns, rows]: the set of column *)
(* names and the sequence of rows in index order, each row a function from *)
(* the column names to values: integers, and strings in the columns of     *)
(* names.  The notebook's cells are the actions;                           *)
(* the notebook globals df and df2 are the state, together with the record *)
(* of the last call made: the function, its arguments and its outcome.     *)
(* rng is the state of numpy's process-wide generator, np.random, which    *)
(* the cells of the differential-privacy notebook draw from.               *)
(***************************************************************************)
EXTENDS Integers, Sequences, FiniteSets

VARIABLES df, df2, call, rng

vars == <<df, df2, call, rng>>

(***************************************************************************)
(* Bounds of the model.                                                    *)
(***************************************************************************)
MaxRows == 3
MaxDepth == 2
MaxVal == 120

\* Depths and k offered to the cells: from one below the valid values to a
\* depth that clears every value, and to a k no frame of the model reaches.
DepthRange == (0 - 1)..MaxDepth
KRange == (0 - 1)..(MaxRows + 1)

(***************************************************************************)
(* Values of the model: Python's None, returned values, raised exceptions. *)
(***************************************************************************)
None == [kind |-> "None"]
Returned(v) == [kind |-> "return", val |-> v]
Raised(e) == [kind |-> "raise", exc |-> e]

DataFrame(cols, rows) == [kind |-> "DataFrame", columns |-> cols, rows |-> rows]

\* The columns of raw_data that hold strings; every other column holds
\* integers.
StringColumns == {"first_name", "last_name"}

\* The order of the columns in a frame: the order of raw_data's keys, and
\* ['age', 'edu'] in the census example.
ColumnOrder == <<"first_name", "last_name", "age", "preTestScore", "postTestScore", "edu">>

\* df.shape[0]
NRows(frame) == Len(frame.rows)

(***************************************************************************)
(* isKAnonymized(df, k)                                                    *)
(***************************************************************************)
\* A query that tests one column of the frame only.
QueryOneColumn(frame, row) ==
    LET col == CHOOSE c \in frame.columns : TRUE
    IN  {<<col, row[col]>>}

\* ' & '.join([f'{col} == {row[col]}' for col in df.columns]): one equality
\* test per column of the frame, on the value the row has in that column.
Query(frame, row) == {<<col, row[col]>> : col \in frame.columns}

\* The text of a test holds the value as str() prints it, a string without
\* quotes: first_name == Jason.  df.query reads such a value as a name and
\* raises UndefinedVariableError when the frame has no column of that name.
QueryRaises(frame, query) ==
    \E q \in query : q[1] \in StringColumns /\ q[2] \notin frame.columns

\* A query whose tests are joined by | instead of &.
QueryRowsAny(frame, query) ==
    {j \in 1..NRows(frame) : \E q \in query : frame.rows[j][q[1]] = q[2]}

\* df.query(query): the indices of the rows that pass every test of the query.
QueryRows(frame, query) ==
    {j \in 1..NRows(frame) : \A q \in query : frame.rows[j][q[1]] = q[2]}

\* The loop with <= for <, and with the comparison turned around.
RECURSIVE isKAnonymizedOffBy(_, _, _)
isKAnonymizedOffBy(frame, kk, i) ==
    IF i > NRows(frame) THEN Returned(TRUE)
    ELSE IF QueryRaises(frame, Query(frame, frame.rows[i]))
         THEN Raised("UndefinedVariableError")
         ELSE IF Cardinality(QueryRows(frame, Query(frame, frame.rows[i]))) <= kk
              THEN Returned(FALSE)
              ELSE isKAnonymizedOffBy(frame, kk, i + 1)

RECURSIVE isKAnonymizedFlipped(_, _, _)
isKAnonymizedFlipped(frame, kk, i) ==
    IF i > NRows(frame) THEN Returned(TRUE)
    ELSE IF QueryRaises(frame, Query(frame, frame.rows[i]))
         THEN Raised("UndefinedVariableError")
         ELSE IF Cardinality(QueryRows(frame, Query(frame, frame.rows[i]))) > kk
              THEN Returned(FALSE)
              ELSE isKAnonymizedFlipped(frame, kk, i + 1)

\* A loop that returns in its first iteration, True or False.
isKAnonymizedFirstRow(frame, kk, i) ==
    IF i > NRows(frame) THEN Returned(TRUE)
    ELSE IF QueryRaises(frame, Query(frame, frame.rows[i]))
         THEN Raised("UndefinedVariableError")
         ELSE Returned(Cardinality(QueryRows(frame, Query(frame, frame.rows[i]))) >= kk)

\* The loop over df.iterrows() from row i on, with its early return:
\* rows = df.query(query); if rows.shape[0] < k: return False.  A query
\* that raises ends the call with its exception.
RECURSIVE isKAnonymizedFrom(_, _, _)
isKAnonymizedFrom(frame, kk, i) ==
    IF i > NRows(frame) THEN Returned(TRUE)
    ELSE IF QueryRaises(frame, Query(frame, frame.rows[i]))
         THEN Raised("UndefinedVariableError")
         ELSE IF Cardinality(QueryRows(frame, Query(frame, frame.rows[i]))) < kk
              THEN Returned(FALSE)
              ELSE isKAnonymizedFrom(frame, kk, i + 1)

isKAnonymized(frame, kk) == isKAnonymizedFrom(frame, kk, 1)

(***************************************************************************)
(* generalize(df, depths)                                                  *)
(***************************************************************************)
RECURSIVE Pow10(_)
Pow10(n) == IF n = 0 THEN 1 ELSE 10 * Pow10(n - 1)

\* Numbers of the arithmetic are fractions <<numerator, denominator>>,
\* denominator > 0.  10**d is the integer 10^d for d >= 0 and the float
\* 10^d for d < 0; on the values of the model the float arithmetic below
\* gives the results of the exact arithmetic.
TenTo(d) == IF d >= 0 THEN <<Pow10(d), 1>> ELSE <<1, Pow10(0 - d)>>

\* y / q  (true division)
TrueDiv(y, q) == <<y * q[2], q[1]>>

\* n * q
Times(n, q) == <<n * q[1], q[2]>>

\* int() that rounds down instead of toward zero.
IntFloor(q) == q[1] \div q[2]

\* int(q): rounds toward zero.
PyInt(q) == IF q[1] >= 0 THEN q[1] \div q[2] ELSE 0 - ((0 - q[1]) \div q[2])

\* The lambda without the multiplication, one digit too deep, and rounding
\* to the nearest multiple.
GenNoScale(y, d) == PyInt(TrueDiv(y, TenTo(d)))

GenDeeper(y, d) == PyInt(Times(PyInt(TrueDiv(y, TenTo(d + 1))), TenTo(d + 1)))

GenRound(y, d) ==
    IF d < 0 THEN y ELSE ((2 * y + Pow10(d)) \div (2 * Pow10(d))) * Pow10(d)

\* The lambda keeping the digits it should replace by zeros.
GenKeepDigits(y, d) ==
    IF d < 0 THEN y
    ELSE IF y >= 0 THEN y % Pow10(d) ELSE 0 - ((0 - y) % Pow10(d))

\* The lambda rounding up to the next multiple.
GenUp(y, d) ==
    IF d < 0 THEN y ELSE ((y + Pow10(d) - 1) \div Pow10(d)) * Pow10(d)

\* lambda y: int(int(y/(10**depths[x.name]))*(10**depths[x.name]))
Gen(y, d) == PyInt(Times(PyInt(TrueDiv(y, TenTo(d))), TenTo(d)))

\* The positions in ColumnOrder of the columns of a frame whose first value
\* cannot be mapped: the column has no entry in depths, or holds strings.
Unmapped(frame, dd) ==
    {p \in 1..Len(ColumnOrder) :
        /\ ColumnOrder[p] \in frame.columns
        /\ ColumnOrder[p] \notin DOMAIN dd \/ ColumnOrder[p] \in StringColumns}

\* df.apply(lambda x: x.apply(...)): column by column, value by value.  The
\* depth of a column is looked up when a value of the column is mapped, so
\* a frame without rows is copied without any lookup.  The first column
\* with a value that cannot be mapped ends the call: 10**depths[x.name] is
\* evaluated before the division, so a column with no entry in depths
\* raises KeyError, and a string divided by the power raises TypeError.
generalize(frame, dd) ==
    IF NRows(frame) = 0 THEN Returned(frame)
    ELSE IF Unmapped(frame, dd) # {}
         THEN LET p == CHOOSE q \in Unmapped(frame, dd) :
                            \A r \in Unmapped(frame, dd) : q <= r
              IN  IF ColumnOrder[p] \notin DOMAIN dd
                  THEN Raised("KeyError")
                  ELSE Raised("TypeError")
         ELSE Returned(DataFrame(frame.columns,
                [j \in 1..NRows(frame) |->
                    [col \in frame.columns |-> Gen(frame.rows[j][col], dd[col])]]))

(***************************************************************************)
(* Inputs.                                                                 *)
(***************************************************************************)
SeqsUpTo(S, n) == UNION {[1..m -> S] : m \in 0..n}

\* Rows over the columns of the census example, df.columns = ['age', 'edu']:
\* a negative age, two ages that generalize to one value, and rows that
\* agree on one column only.
NumberRows ==
    { [age |-> 0 - 5, edu |-> 4], [age |-> 4, edu |-> 4], [age |-> 4, edu |-> 15] }

\* Rows of raw_data with a column of strings, columns = ['first_name', 'age'].
NameRows ==
    { [first_name |-> "Jason", age |-> 42], [first_name |-> "Molly", age |-> 52] }

TableRows == NumberRows \cup NameRows

\* Small tables: every frame holds rows over one set of columns.
Tables ==
    UNION { {DataFrame(DOMAIN shape, rows) :
                rows \in SeqsUpTo({r \in TableRows : DOMAIN r = DOMAIN shape}, MaxRows)} :
            shape \in TableRows }

\* The tables whose cells are all integers.
NumberTables == {frame \in Tables : frame.columns \cap StringColumns = {}}

\* One-value frames over a wide range of values.
Cells == {DataFrame({"age"}, <<[age |-> v]>>) : v \in (0 - MaxVal)..MaxVal}

\* The depths dictionaries a cell may define for a frame: any depth, valid
\* or not, for any subset of the frame's columns.
DepthsDicts(frame) == UNION {[S -> DepthRange] : S \in SUBSET frame.columns}

(***************************************************************************)
(* The notebook.                                                           *)
(***************************************************************************)
NoCall == [fn |-> "none"]

\* np.random: the stream of unit draws its seed fixes, and how many of them
\* have been taken.  The k-anonymity notebook never draws.
Generator(stream) == [stream |-> stream, pos |-> 0]

Init ==
    /\ df \in Tables
    /\ df2 = None
    /\ call = NoCall
    /\ rng = Generator(<< >>)

\* The notebook opened on a frame of integers.
InitNumbers ==
    /\ df \in NumberTables
    /\ df2 = None
    /\ call = NoCall
    /\ rng = Generator(<< >>)

\* isKAnonymized(df, k) and isKAnonymized(df2, k)
CellIsKAnonymized ==
    \E frame \in {df, df2} \ {None} : \E kk \in KRange :
        /\ call' = [fn |-> "isKAnonymized", df |-> frame, k |-> kk,
                    ret |-> isKAnonymized(frame, kk)]
        /\ UNCHANGED <<df, df2, rng>>

\* A generalize that writes its result into the frame it was given.
CellGeneralizeInPlace ==
    \E dd \in DepthsDicts(df) :
        /\ call' = [fn |-> "generalize", df |-> df, depths |-> dd,
                    ret |-> generalize(df, dd)]
        /\ df2' = IF call'.ret.kind = "return" THEN call'.ret.val ELSE df2
        /\ df' = df2'
        /\ UNCHANGED rng

\* depths = {...}; df2 = generalize(df, depths).  A call that raises leaves
\* df2 as it was.
CellGeneralize ==
    \E dd \in DepthsDicts(df) :
        /\ call' = [fn |-> "generalize", df |-> df, depths |-> dd,
                    ret |-> generalize(df, dd)]
        /\ df2' = IF call'.ret.kind = "return" THEN call'.ret.val ELSE df2
        /\ UNCHANGED <<df, rng>>

\* depths = {...}; generalize(df, depths): the result is displayed and not
\* assigned, df2 keeps the frame of the cell before.
CellGeneralizeShown ==
    \E dd \in DepthsDicts(df) :
        /\ call' = [fn |-> "generalize", df |-> df, depths |-> dd,
                    ret |-> generalize(df, dd)]
        /\ UNCHANGED <<df, df2, rng>>

Next == CellIsKAnonymized \/ CellGeneralize \/ CellGeneralizeShown

Spec == Init /\ [][Next]_vars

\* The same function applied to its own output, df2 = generalize(df2, depths),
\* right after the cell that made df2 from df; the call record keeps the
\* depths of that first call.
CellGeneralizeAgain ==
    /\ call.fn = "generalize"
    /\ call.df = df
    /\ call.ret.kind = "return"
    /\ \E dd \in DepthsDicts(df2) :
        /\ call' = [fn |-> "generalize", df |-> df2, depths |-> dd,
                    before |-> call.depths, ret |-> generalize(df2, dd)]
        /\ df2' = IF call'.ret.kind = "return" THEN call'.ret.val ELSE df2
        /\ UNCHANGED <<df, rng>>

InitValues ==
    /\ df \in Cells
    /\ df2 = None
    /\ call = NoCall
    /\ rng = Generator(<< >>)

NextValues == CellGeneralize \/ CellGeneralizeAgain

SpecValues == InitValues /\ [][NextValues]_vars

(***************************************************************************)
(* Terms of the claims.                                                    *)
(***************************************************************************)
IsCheck == call.fn = "isKAnonymized"
IsGeneralize == call.fn = "generalize"

\* The equivalence classes of a frame: the sets of indices of rows equal on
\* every column; the size of the smallest one, 0 when there is none.
Classes(frame) ==
    {{j \in 1..NRows(frame) : frame.rows[j] = frame.rows[i]} : i \in 1..NRows(frame)}

MinClassSize(frame) ==
    IF Classes(frame) = {} THEN 0
    ELSE CHOOSE n \in 0..NRows(frame) :
            /\ \E c \in Classes(frame) : Cardinality(c) = n
            /\ \A c \in Classes(frame) : Cardinality(c) >= n

\* The depths dictionary names every column of the frame, each with a
\* depth >= 0.
ValidDepths(frame, dd) ==
    /\ DOMAIN dd = frame.columns
    /\ \A col \in DOMAIN dd : dd[col] >= 0

C3_MonotoneInK ==
    (IsCheck /\ call.ret = Returned(FALSE)) =>
        \A kk \in KRange : kk > call.k => isKAnonymized(call.df, kk) = Returned(FALSE)

C3_Witness ==
    /\ IsCheck /\ call.ret = Returned(FALSE)
    /\ call.k = 2
    /\ MinClassSize(call.df) = 1
    /\ \E kk \in KRange : kk > call.k

\* C4 as claimed: a check with k <= 0 fails with an InvalidParameter error
\* instead of returning a boolean.
C4_Original ==
    (IsCheck /\ call.k <= 0) => call.ret = Raised("InvalidParameter")

(***************************************************************************)
(* generalize                                                              *)
(***************************************************************************)
\* floor(v / 10^d) * 10^d, and v / 10^d rounded toward zero, times 10^d.
FloorTo(v, d) == (v \div Pow10(d)) * Pow10(d)

TowardZeroTo(v, d) == IF v >= 0 THEN FloorTo(v, d) ELSE 0 - FloorTo(0 - v, d)

\* The last call was generalize with a valid depth for every column, on a
\* frame with rows.
GeneralizedValid ==
    /\ IsGeneralize
    /\ NRows(call.df) >= 1
    /\ ValidDepths(call.df, call.depths)

\* C5 as claimed: the value v of a column of depth d >= 0 comes out as
\* floor(v / 10^d) * 10^d, negative values included.
C5_Original ==
    GeneralizedValid =>
        /\ call.ret.kind = "return"
        /\ \A j \in 1..NRows(call.df) : \A col \in call.df.columns :
            call.ret.val.rows[j][col] = FloorTo(call.df.rows[j][col], call.depths[col])

\* C5 amended: the value v of a column of depth d >= 0 comes out as v / 10^d
\* rounded toward zero, times 10^d: floor(v / 10^d) * 10^d for v >= 0 and
\* -(floor(-v / 10^d) * 10^d) for v < 0.
C5_RoundsTowardZero ==
    GeneralizedValid =>
        /\ call.ret.kind = "return"
        /\ call.ret.val.columns = call.df.columns
        /\ NRows(call.ret.val) = NRows(call.df)
        /\ \A j \in 1..NRows(call.df) : \A col \in call.df.columns :
            call.ret.val.rows[j][col] =
                TowardZeroTo(call.df.rows[j][col], call.depths[col])

C5_Witness ==
    /\ GeneralizedValid
    /\ call.depths["age"] = 1
    /\ call.df.rows[1]["age"] = 0 - 15
    /\ call.ret.kind = "return"
    /\ call.ret.val.rows[1]["age"] = 0 - 10

\* C6 as claimed: for every dataset, generalize with depth 0 for every
\* column returns a dataset with exactly the values of its input.
C6_Original ==
    (IsGeneralize /\ DOMAIN call.depths = call.df.columns
        /\ \A col \in DOMAIN call.depths : call.depths[col] = 0)
    => call.ret = Returned(call.df)

\* C6 amended: for every dataset of integer cells, and for every dataset
\* without rows whatever its columns, generalize with depth 0 for every
\* column returns a dataset with exactly the values of its input.
C6_DepthZeroIdentity ==
    (IsGeneralize /\ DOMAIN call.depths = call.df.columns
        /\ (\A col \in DOMAIN call.depths : call.depths[col] = 0)
        /\ (NRows(call.df) = 0 \/ call.df.columns \cap StringColumns = {}))
    => call.ret = Returned(call.df)

C6_Witness ==
    /\ IsGeneralize
    /\ DOMAIN call.depths = call.df.columns
    /\ call.df.columns \cap StringColumns = {}
    /\ \A col \in DOMAIN call.depths : call.depths[col] = 0
    /\ NRows(call.df) = 2
    /\ call.df.rows[1]["age"] < 0
    /\ call.ret = Returned(call.df)

\* The last call was generalize on the output of generalize(df, before).
GeneralizedAgain ==
    /\ IsGeneralize
    /\ "before" \in DOMAIN call
    /\ NRows(call.df) >= 1
    /\ ValidDepths(df, call.before)
    /\ ValidDepths(call.df, call.depths)

\* C7: generalizing the depth-d output again at depth d returns it
\* unchanged: gen(gen(v, d), d) = gen(v, d).
C7_Idempotent ==
    (GeneralizedAgain /\ call.depths = call.before) => call.ret = Returned(call.df)

C7_Witness ==
    /\ GeneralizedAgain
    /\ call.depths = call.before
    /\ call.depths["age"] = 1
    /\ df.rows[1]["age"] = 117
    /\ call.df.rows[1]["age"] = 110
    /\ call.ret = Returned(call.df)

C9_Original ==
    (IsGeneralize /\ NRows(call.df) >= 1 /\ DOMAIN call.depths = call.df.columns
        /\ \E col \in DOMAIN call.depths : call.depths[col] < 0)
    => call.ret = Raised("InvalidParameter")

\* C10 as claimed: when depths omits a column of the dataset, generalize
\* succeeds, the omitted column is returned unchanged and the listed
\* columns are generalized.
C10_Original ==
    (IsGeneralize /\ DOMAIN call.depths # {} /\ DOMAIN call.depths # call.df.columns
        /\ \A col \in DOMAIN call.depths : call.depths[col] >= 0)
    =>  /\ call.ret.kind = "return"
        /\ call.ret.val.columns = call.df.columns
        /\ NRows(call.ret.val) = NRows(call.df)
        /\ \A j \in 1..NRows(call.df) : \A col \in call.df.columns :
            call.ret.val.rows[j][col] =
                IF col \in DOMAIN call.depths
                THEN TowardZeroTo(call.df.rows[j][col], call.depths[col])
                ELSE call.df.rows[j][col]

\* C11: generalize never changes the dataset it is given: over any sequence
\* of calls df keeps its values, the frame a call was given is still what df
\* holds after it, and a later call on df returns what it would have
\* returned had no call been made before.
C11_InputNotMutated ==
    [][call'.fn = "generalize" =>
        /\ df' = df
        /\ call'.df \in {df, df2}
        /\ ("before" \notin DOMAIN call' => call'.df = df')]_vars

C11_Witness ==
    /\ IsGeneralize
    /\ "before" \notin DOMAIN call
    /\ NRows(df) >= 2
    /\ call.df = df
    /\ call.ret.kind = "return"
    /\ call.ret.val # df
    /\ df2 = call.ret.val

(***************************************************************************)
(* The example dataset of the notebook.                                    *)
(***************************************************************************)
ExampleColumns == {"age", "preTestScore", "postTestScore"}

ExampleRow(a, pre, post) == [age |-> a, preTestScore |-> pre, postTestScore |-> post]

\* raw_data; df = pd.DataFrame(raw_data, columns = ['age', 'preTestScore',
\* 'postTestScore'])
ExampleFrame ==
    DataFrame(ExampleColumns,
        << ExampleRow(42, 4, 25), ExampleRow(52, 24, 94), ExampleRow(36, 31, 57),
           ExampleRow(24, 2, 62), ExampleRow(73, 3, 70) >>)

InitExample ==
    /\ df = ExampleFrame
    /\ df2 = None
    /\ call = NoCall
    /\ rng = Generator(<< >>)

NextExample == CellIsKAnonymized \/ CellGeneralize \/ CellGeneralizeShown

SpecExample == InitExample /\ [][NextExample]_vars

\* The output the notebook shows for df2 = generalize(df, depths) with depth
\* 1 for every column.
ExampleDepthOne ==
    DataFrame(ExampleColumns,
        << ExampleRow(40, 0, 20), ExampleRow(50, 20, 90), ExampleRow(30, 30, 50),
           ExampleRow(20, 0, 60), ExampleRow(70, 0, 70) >>)

\* C12: the five-row example is k-anonymous for k = 1 and not for k = 2;
\* generalized at depth 1 on every column it becomes the dataset the notebook
\* shows, whose five rows are pairwise distinct and which is still not
\* k-anonymous for k = 2.
C12_Example ==
    /\ (IsCheck /\ call.df = ExampleFrame /\ call.k = 1) => call.ret = Returned(TRUE)
    /\ (IsCheck /\ call.df = ExampleFrame /\ call.k = 2) => call.ret = Returned(FALSE)
    /\ (IsGeneralize /\ call.df = ExampleFrame
            /\ call.depths = [col \in ExampleColumns |-> 1])
        =>  /\ call.ret = Returned(ExampleDepthOne)
            /\ Cardinality(Classes(call.ret.val)) = 5
    /\ (IsCheck /\ call.df = ExampleDepthOne /\ call.k = 2) => call.ret = Returned(FALSE)

C12_Witness ==
    /\ IsCheck
    /\ df = ExampleFrame
    /\ df2 = ExampleDepthOne
    /\ call.df = df2
    /\ call.k = 2
    /\ call.ret = Returned(FALSE)

(***************************************************************************)
(* Removing outliers: clip, then generalize.                               *)
(***************************************************************************)
Min(a, b) == IF a <= b THEN a ELSE b
Max(a, b) == IF a >= b THEN a ELSE b

\* df.clip(lower=..., axis='columns'): the bound of each column, by position.
ClipLower(frame, lower) ==
    DataFrame(frame.columns,
        [j \in 1..NRows(frame) |->
            [col \in frame.columns |-> Max(frame.rows[j][col], lower[col])]])

\* A clip at the upper bound that keeps the larger of value and bound.
ClipUpperKeepsLarger(frame, upper) ==
    DataFrame(frame.columns,
        [j \in 1..NRows(frame) |->
            [col \in frame.columns |-> Max(frame.rows[j][col], upper[col])]])

\* df.clip(upper=..., axis='columns')
ClipUpper(frame, upper) ==
    DataFrame(frame.columns,
        [j \in 1..NRows(frame) |->
            [col \in frame.columns |-> Min(frame.rows[j][col], upper[col])]])

\* dfp.head(500)
HeadRows == 500
head(frame, n) == DataFrame(frame.columns, SubSeq(frame.rows, 1, Min(n, NRows(frame))))

\* The bounds of the notebook, upper = [60, 100000000] and lower = [10, 3],
\* and a second choice of each; the second lower bound of age is above the
\* second upper bound.
UpperBounds == { [age |-> 60, edu |-> 100000000], [age |-> 15, edu |-> 4] }
LowerBounds == { [age |-> 10, edu |-> 3], [age |-> 60, edu |-> 3] }

\* Tables with values below, inside and above the bounds.
ClipRows ==
    { [age |-> 4, edu |-> 1], [age |-> 15, edu |-> 4], [age |-> 65, edu |-> 16] }
ClipTables == {DataFrame({"age", "edu"}, rows) : rows \in SeqsUpTo(ClipRows, MaxRows)}

\* dfp = df.clip(upper=...); dfp = dfp.clip(lower=...);
\* df2 = generalize(dfp.head(500), depths)
CellClip ==
    \E upper \in UpperBounds : \E lower \in LowerBounds :
    \E dd \in [df.columns -> DepthRange] :
        LET dfp == ClipLower(ClipUpper(df, upper), lower) IN
        /\ call' = [fn |-> "clip", df |-> df, upper |-> upper, lower |-> lower,
                    dfp |-> dfp, depths |-> dd,
                    ret |-> generalize(head(dfp, HeadRows), dd)]
        /\ df2' = IF call'.ret.kind = "return" THEN call'.ret.val ELSE df2
        /\ UNCHANGED <<df, rng>>

InitClip ==
    /\ df \in ClipTables
    /\ df2 = None
    /\ call = NoCall
    /\ rng = Generator(<< >>)

NextClip == CellClip

SpecClip == InitClip /\ [][NextClip]_vars

IsClip == call.fn = "clip"

\* C13: in every column whose bounds have lower <= upper, clipping replaces a
\* value below lower by lower and a value above upper by upper, leaves the
\* values in between unchanged, so that every clipped value lies within the
\* bounds; and the generalization is applied to the clipped values.
C13_ClipThenGeneralize ==
    IsClip =>
        /\ call.dfp.columns = call.df.columns
        /\ NRows(call.dfp) = NRows(call.df)
        /\ \A col \in call.df.columns : call.lower[col] <= call.upper[col] =>
            \A j \in 1..NRows(call.df) :
                LET v == call.df.rows[j][col]
                    c == call.dfp.rows[j][col]
                IN  /\ v < call.lower[col] => c = call.lower[col]
                    /\ v > call.upper[col] => c = call.upper[col]
                    /\ (call.lower[col] <= v /\ v <= call.upper[col]) => c = v
                    /\ call.lower[col] <= c /\ c <= call.upper[col]
        /\ (NRows(call.df) >= 1 /\ ValidDepths(call.df, call.depths)) =>
            /\ call.ret.kind = "return"
            /\ \A j \in 1..NRows(call.df) : \A col \in call.df.columns :
                call.ret.val.rows[j][col] =
                    TowardZeroTo(call.dfp.rows[j][col], call.depths[col])

C13_Witness ==
    /\ IsClip
    /\ call.upper = [age |-> 60, edu |-> 100000000]
    /\ call.lower = [age |-> 10, edu |-> 3]
    /\ call.depths = [age |-> 1, edu |-> 1]
    /\ call.df.rows = << [age |-> 4, edu |-> 1], [age |-> 65, edu |-> 16],
                         [age |-> 15, edu |-> 4] >>
    /\ call.dfp.rows = << [age |-> 10, edu |-> 3], [age |-> 60, edu |-> 16],
                          [age |-> 15, edu |-> 4] >>
    /\ call.ret.kind = "return"
    /\ call.ret.val.rows = << [age |-> 10, edu |-> 0], [age |-> 60, edu |-> 10],
                              [age |-> 10, edu |-> 0] >>

(***************************************************************************)
(* The differential-privacy notebook: counting queries and the Laplace     *)
(* mechanism.                                                              *)
(***************************************************************************)
MaxDraws == 2

\* adult = pd.read_csv("adult_with_pii.csv"), reduced to the columns the
\* queries read.
AdultColumns == {"Name", "Age", "Target"}
AdultRows ==
    { [Name |-> "Karrie Trusslove", Age |-> 40, Target |-> "<=50K"],
      [Name |-> "Karrie Trusslove", Age |-> 39, Target |-> ">50K"],
      [Name |-> "Other", Age |-> 40, Target |-> ">50K"],
      [Name |-> "Other", Age |-> 39, Target |-> "<=50K"] }
Adults == {DataFrame(AdultColumns, rows) : rows \in SeqsUpTo(AdultRows, MaxRows)}

\* frame[column >= value] and frame[column == value]: one boolean per row.
MaskGe(frame, column, value) == [j \in 1..NRows(frame) |-> frame.rows[j][column] >= value]
MaskEq(frame, column, value) == [j \in 1..NRows(frame) |-> frame.rows[j][column] = value]

\* frame[mask]: the rows whose boolean is True, in order.
Select(frame, mask) ==
    LET kept[j \in 0..NRows(frame)] ==
            IF j = 0 THEN << >>
            ELSE IF mask[j] THEN Append(kept[j - 1], frame.rows[j])
            ELSE kept[j - 1]
    IN  DataFrame(frame.columns, kept[NRows(frame)])

\* .size for .shape[0]: the number of cells instead of the number of rows.
CountAgeSize(frame) ==
    NRows(Select(frame, MaskGe(frame, "Age", 40))) * Cardinality(frame.columns)

\* adult[adult['Age'] >= 40].shape[0]
CountAge(frame) == NRows(Select(frame, MaskGe(frame, "Age", 40)))

\* karries_row = adult[adult['Name'] == 'Karrie Trusslove']
\* karries_row[karries_row['Target'] == '<=50K'].shape[0]
CountKarrie(frame) ==
    LET karries_row == Select(frame, MaskEq(frame, "Name", "Karrie Trusslove"))
    IN  NRows(Select(karries_row, MaskEq(karries_row, "Target", "<=50K")))

Queries == {"age", "karrie"}
Answer(query, frame) == IF query = "age" THEN CountAge(frame) ELSE CountKarrie(frame)

\* Fractions <<numerator, denominator>> with a positive denominator.
Frac(n, d) == IF d > 0 THEN <<n, d>> ELSE <<0 - n, 0 - d>>
FracEq(a, b) == a[1] * b[2] = b[1] * a[2]
FracPlus(a, b) == <<a[1] * b[2] + b[1] * a[2], a[2] * b[2]>>
FracMinus(a, b) == <<a[1] * b[2] - b[1] * a[2], a[2] * b[2]>>
FracTimes(a, b) == <<a[1] * b[1], a[2] * b[2]>>

\* epsilon / sensitivity for sensitivity / epsilon.
ScaleInverted(sensitivity, epsilon) ==
    IF sensitivity = 0 THEN Raised("ZeroDivisionError")
    ELSE Returned(Frac(epsilon[1], epsilon[2] * sensitivity))

\* sensitivity/epsilon: Python raises ZeroDivisionError for epsilon = 0.
Scale(sensitivity, epsilon) ==
    IF epsilon[1] = 0 THEN Raised("ZeroDivisionError")
    ELSE Returned(Frac(sensitivity * epsilon[2], epsilon[1]))

\* The sign bit of the float sensitivity/epsilon: a zero sensitivity over a
\* negative epsilon is -0.0.
SignBit(sensitivity, epsilon) == (sensitivity < 0) # (epsilon[1] < 0)

\* np.random.laplace(loc, scale): ValueError("scale < 0") when the sign bit
\* of scale is set, with nothing drawn; otherwise loc + scale * (the next
\* unit draw of the generator).
laplace(gen, loc, scale, signbit) ==
    IF signbit THEN [ret |-> Raised("ValueError"), rng |-> gen]
    ELSE [ret |-> Returned(FracPlus(loc, FracTimes(scale, <<gen.stream[gen.pos + 1], 1>>))),
          rng |-> [gen EXCEPT !.pos = gen.pos + 1]]

\* The values the cells give to sensitivity and epsilon (epsilon in tenths):
\* the notebook's 1 and 0.1, and zero and negative values.
Sensitivities == {0, 1}
Epsilons == {<<0 - 1, 10>>, <<0, 10>>, <<1, 10>>}

\* The unit draws a seed may fix.
Units == {0 - 1, 2}

\* adult[adult['Age'] >= 40].shape[0], and the query on Karrie's row.
CellCount ==
    \E query \in Queries :
        /\ call' = [fn |-> "count", query |-> query, df |-> df,
                    ret |-> Returned(Answer(query, df))]
        /\ UNCHANGED <<df, df2, rng>>

\* sensitivity = ...; epsilon = ...
\* <query> + np.random.laplace(loc=0, scale=sensitivity/epsilon)
\* A call that draws needs a draw left in the stream; a call that raises (the
\* division, or numpy on a negative scale) draws nothing and runs whatever
\* was drawn before.
CellLaplace ==
    \E query \in Queries : \E sensitivity \in Sensitivities : \E epsilon \in Epsilons :
        LET answer == Answer(query, df)
            scale == Scale(sensitivity, epsilon)
            drawn == IF scale.kind = "return" THEN laplace(rng, <<0, 1>>, scale.val, SignBit(sensitivity, epsilon))
                     ELSE [ret |-> scale, rng |-> rng]
        IN  /\ (scale.kind = "return" /\ ~SignBit(sensitivity, epsilon))
                    => rng.pos < Len(rng.stream)
            /\ call' = [fn |-> "laplace", query |-> query, df |-> df,
                        sensitivity |-> sensitivity, epsilon |-> epsilon,
                        loc |-> <<0, 1>>, scale |-> scale, noise |-> drawn.ret,
                        draws |-> drawn.rng.pos - rng.pos,
                        ret |-> IF drawn.ret.kind = "return"
                                THEN Returned(FracPlus(<<answer, 1>>, drawn.ret.val))
                                ELSE drawn.ret]
            /\ rng' = drawn.rng
            /\ UNCHANGED <<df, df2>>

InitLaplace ==
    /\ df \in Adults
    /\ df2 = None
    /\ call = NoCall
    /\ rng \in {Generator(stream) : stream \in [1..MaxDraws -> Units]}

NextLaplace == CellCount \/ CellLaplace

SpecLaplace == InitLaplace /\ [][NextLaplace]_vars

IsLaplace == call.fn = "laplace"
IsCount == call.fn = "count"

\* The number of rows of a frame that satisfy the predicate of a query.
Counted(query, frame) ==
    Cardinality({j \in 1..NRows(frame) :
        IF query = "age" THEN frame.rows[j]["Age"] >= 40
        ELSE frame.rows[j]["Name"] = "Karrie Trusslove"
                /\ frame.rows[j]["Target"] = "<=50K"})

\* C14: a mechanism call that returns gives the true answer plus exactly one
\* draw of the generator, centred at 0 and scaled by sensitivity / epsilon:
\* the output minus the noise is the true answer of the query.
C14_AnswerPlusOneDraw ==
    (IsLaplace /\ call.ret.kind = "return") =>
        /\ call.loc = <<0, 1>>
        /\ call.scale.kind = "return"
        /\ call.scale.val[1] * call.epsilon[1]
                = call.sensitivity * call.epsilon[2] * call.scale.val[2]
        /\ call.draws = 1
        /\ FracEq(call.noise.val, FracTimes(call.scale.val, <<rng.stream[rng.pos], 1>>))
        /\ FracEq(FracMinus(call.ret.val, call.noise.val),
                  <<Counted(call.query, call.df), 1>>)

C14_Witness ==
    /\ IsLaplace
    /\ call.query = "age"
    /\ call.sensitivity = 1
    /\ call.epsilon = <<1, 10>>
    /\ NRows(call.df) = 3
    /\ Counted("age", call.df) = 2
    /\ call.noise = Returned(<<0 - 10, 1>>)
    /\ call.ret.kind = "return"
    /\ FracEq(call.ret.val, <<0 - 8, 1>>)

\* C15: a mechanism call whose sensitivity or epsilon is zero or negative
\* fails with InvalidParameter.
C15_Original ==
    (IsLaplace /\ (call.sensitivity <= 0 \/ call.epsilon[1] <= 0)) =>
        call.ret = Raised("InvalidParameter")

\* The datasets that differ from the frame in one record: one row replaced,
\* one row removed, or one row added.
Neighbours(frame) ==
    LET n == NRows(frame)
        Replaced == {DataFrame(frame.columns, [frame.rows EXCEPT ![j] = r]) :
                        j \in 1..n, r \in AdultRows}
        Removed == {DataFrame(frame.columns,
                        SubSeq(frame.rows, 1, j - 1) \o SubSeq(frame.rows, j + 1, n)) :
                        j \in 1..n}
        Added == {DataFrame(frame.columns,
                        SubSeq(frame.rows, 1, j) \o <<r>> \o SubSeq(frame.rows, j + 1, n)) :
                        j \in 0..n, r \in AdultRows}
    IN  (Replaced \cup Removed \cup Added) \ {frame}

Abs(x) == IF x < 0 THEN 0 - x ELSE x

\* C16: the answer of a counting query changes by at most 1 between the
\* dataset it ran on and any dataset that differs from it in one record.
C16_CountSensitivityOne ==
    IsCount =>
        \A other \in Neighbours(call.df) :
            Abs(Answer(call.query, other) - call.ret.val) <= 1

C16_Witness ==
    /\ IsCount
    /\ call.query = "age"
    /\ NRows(call.df) = 2
    /\ call.ret = Returned(1)
    /\ \E other \in Neighbours(call.df) :
            NRows(other) = 3 /\ Answer("age", other) = 2
    /\ \E other \in Neighbours(call.df) :
            NRows(other) = 2 /\ Answer("age", other) = 0

\* C18: a mechanism call returns what a generator seeded alike and handed to
\* this call alone gives (the answer plus the scaled first draw of the
\* stream), whatever was drawn before it.
C18_Original ==
    (IsLaplace /\ call.ret.kind = "return") =>
        FracEq(call.ret.val,
               FracPlus(<<Counted(call.query, call.df), 1>>,
                        FracTimes(call.scale.val, <<rng.stream[1], 1>>)))

(***************************************************************************)
(* The check on its own: isKAnonymized(df, k) on the tables.                *)
(***************************************************************************)
NextCheck == CellIsKAnonymized

SpecCheck == InitNumbers /\ [][NextCheck]_vars

\* rows = df.query(query) for the i-th row of the loop: the indices of the
\* rows the check counts for that row.
Group(frame, i) == QueryRows(frame, Query(frame, frame.rows[i]))

Groups(frame) == {Group(frame, i) : i \in 1..NRows(frame)}

RECURSIVE SumOfSizes(_)
SumOfSizes(S) ==
    IF S = {} THEN 0
    ELSE LET c == CHOOSE x \in S : TRUE
         IN  Cardinality(c) + SumOfSizes(S \ {c})

NextGeneralize == CellGeneralize \/ CellGeneralizeShown

SpecGeneralize == InitNumbers /\ [][NextGeneralize]_vars

\* Every value of the frame is non-negative and below 10^depth of its column.
AllBelow(frame, dd) ==
    \A j \in 1..NRows(frame) : \A col \in frame.columns :
        frame.rows[j][col] >= 0 /\ frame.rows[j][col] < Pow10(dd[col])

DeeperDepths(frame, dd) ==
    {ee \in [frame.columns -> 0..MaxDepth] : \A col \in frame.columns : ee[col] >= dd[col]}

Permutations(n) == {p \in [1..n -> 1..n] : \A i, j \in 1..n : p[i] = p[j] => i = j}
Permuted(frame, p) ==
    DataFrame(frame.columns, [j \in 1..NRows(frame) |-> frame.rows[p[j]]])

Project(frame, cols) ==
    DataFrame(cols, [j \in 1..NRows(frame) |-> [col \in cols |-> frame.rows[j][col]]])

\* Tables of one row more, so that a table has room for two groups of two
\* rows.
PairTables == {DataFrame({"age", "edu"}, rows) : rows \in SeqsUpTo(NumberRows, MaxRows + 1)}

InitPairs ==
    /\ df \in PairTables
    /\ df2 = None
    /\ call = NoCall
    /\ rng = Generator(<< >>)

NextPairs == CellIsKAnonymized

SpecPairs == InitPairs /\ [][NextPairs]_vars

\* C26: the check counts, for a row, the rows equal to it on all columns of
\* the frame it is given; and a dataset that is k-anonymous stays
\* k-anonymous when it is projected on any non-empty subset of its columns.
C26_ProjectionKeepsKAnonymity ==
    IsCheck =>
        /\ \A i \in 1..NRows(call.df) :
                Group(call.df, i)
                    = {j \in 1..NRows(call.df) :
                            \A col \in call.df.columns :
                                call.df.rows[j][col] = call.df.rows[i][col]}
        /\ call.ret = Returned(TRUE) =>
                \A cols \in (SUBSET call.df.columns) \ {{}} :
                    isKAnonymized(Project(call.df, cols), call.k) = Returned(TRUE)

C26_Witness ==
    /\ IsCheck
    /\ NRows(call.df) = 4
    /\ Cardinality(Classes(call.df)) = 2
    /\ call.k = 2
    /\ call.ret = Returned(TRUE)
    /\ isKAnonymized(call.df, 3) = Returned(FALSE)
    /\ isKAnonymized(Project(call.df, {"edu"}), 4) = Returned(TRUE)
    /\ isKAnonymized(Project(call.df, {"age"}), 3) = Returned(FALSE)

====
